---- MODULE Spec2Model ----
(***************************************************************************)
(* N lectores, M bibliotecas, K libros por biblioteca                      *)
(* (ParteC/ParteC_en_Python.py).  Each reader thread runs funcion_lector:  *)
(* it visits the libraries in circular order, takes the first available    *)
(* book under the library's lock, reads outside the lock, gives the book   *)
(* back under the same lock and moves on; it stops after K rounds or at    *)
(* the first library where it finds no book.  The main thread creates the  *)
(* readers, starts them through an ExitStack of _ThreadContext and joins   *)
(* them when the stack unwinds.                                            *)
(*                                                                         *)
(* The module also holds the two threaded programs of ParteB: the search   *)
(* of a number in a vector by four threads that add their local counts to  *)
(* contador_global under a Lock (ParteB_Ejercicio3.py), and the sum of two *)
(* matrices by one thread per row (ParteB_Ejercicio2.py).  Each            *)
(* specification runs one program; the others stay in their start state.   *)
(***************************************************************************)
EXTENDS Integers, Sequences, FiniteSets, TLC

\* Largest number of readers, libraries and books per library explored.
MaxN == 3
MaxM == 2
MaxK == 2
\* Largest total number of rounds (N * K) of a run explored.
MaxRondas == 6
\* Numbers the user of the search may enter: 0 .. MaxNumero.
MaxNumero == 20
\* Largest sum of all the entries the user gives to matrices A and B together.
MaxPeso == 2

VARIABLES
    N,                    \* number of readers            (module constant N)
    M,                    \* number of libraries          (module constant M)
    K,                    \* books per library            (module constant K)
    bibliotecas,          \* bibliotecas[p][s]: 1 = available, 0 = taken
    mutex_bibliotecas,    \* per library: Libre, or the reader that holds the Lock
    pc,                   \* per reader: position in funcion_lector
    biblioteca_actual,    \* per reader: local biblioteca_actual
    i,                    \* per reader: rounds of the outer for already run
    libro_tomado,         \* per reader: local libro_tomado (-1 = none)
    k,                    \* per reader: index of the inner scan
    lock_actual,          \* per reader: library whose Lock lock_actual refers to
    biblioteca_siguiente, \* per reader: local biblioteca_siguiente
    traza,                \* per reader: the lines it wrote to the trace logger
    historial,            \* per reader: what it did to the shared state, in order
    principal,            \* main thread: [pc, idx]
    trazaPrincipal,       \* the lines the main thread wrote to the trace logger
    interrupcion,         \* where in __main__ a KeyboardInterrupt was raised ("" = none)
    \* ParteB_Ejercicio3.py
    numero_a_buscar,      \* the number read from the user (Ninguno before)
    contador_global,      \* global contador_global
    lock,                 \* global lock: Libre, or the search thread that holds it
    pcBuscar,             \* per search thread: position in buscar_numero
    indice_relativo,      \* per search thread: index of the enumerate loop
    local_matches,        \* per search thread: local local_matches
    cargado,              \* per search thread: contador_global as loaded by `+=`
    principalBusqueda,    \* main thread of the search: [pc, idx]
    \* ParteB_Ejercicio2.py
    matriz_a,             \* matriz_a[f][c]
    matriz_b,             \* matriz_b[f][c]
    matriz_c,             \* matriz_c[f][c]
    pcFila,               \* per row thread: position in MiHilo.run
    columna,              \* per row thread: loop variable i of run
    resultado,            \* per row thread: local resultado
    principalSuma         \* main thread of the sum: [pc, idx]

vars == <<N, M, K, bibliotecas, mutex_bibliotecas, pc, biblioteca_actual, i,
          libro_tomado, k, lock_actual, biblioteca_siguiente, traza, historial,
          principal, trazaPrincipal, interrupcion,
          numero_a_buscar, contador_global, lock, pcBuscar, indice_relativo,
          local_matches, cargado, principalBusqueda,
          matriz_a, matriz_b, matriz_c, pcFila, columna, resultado, principalSuma>>

config == <<N, M, K>>
locales == <<biblioteca_actual, i, libro_tomado, k, lock_actual, biblioteca_siguiente>>
hiloPrincipal == <<principal, trazaPrincipal, interrupcion>>
busqueda == <<numero_a_buscar, contador_global, lock, pcBuscar, indice_relativo,
              local_matches, cargado, principalBusqueda>>
suma == <<matriz_a, matriz_b, matriz_c, pcFila, columna, resultado, principalSuma>>
parteB == <<busqueda, suma>>

Lectores == 0 .. (N - 1)
Bibliotecas == 0 .. (M - 1)
Libros == 0 .. (K - 1)

\* Value of an unlocked threading.Lock; a locked one records who locked it.
Libre == -1
\* Value of libro_tomado when no book was taken, and of a local not yet bound.
Ninguno == -1

\* One lock for all the libraries: taken only when no library is locked.
LockGlobal(p) == \A q \in Bibliotecas : mutex_bibliotecas[q] = Libre

\* A `with lock_actual` that never waits.
LockSinEspera(p) == TRUE

\* The lock of library p can be taken: `with lock_actual` blocks until then.
LockLibre(p) == mutex_bibliotecas[p] = Libre

\* The availability test the wrong way round.
DisponibleInvertido(p, s) == bibliotecas[p][s] = 0

\* A check that takes a book whether it is available or not.
DisponibleSiempre(p, s) == TRUE

\* `bibliotecas[biblioteca_actual][k] == 1`: book s of library p is available.
Disponible(p, s) == bibliotecas[p][s] = 1

\* A scan that starts at the last book.
PrimerLibroAlFinal == K - 1

\* Index the scan `for k in range(K)` starts at.
PrimerLibro == 0

\* An outer loop one round too long.
QuedanRondasDeMas(a) == i[a] <= K

\* An outer loop one round short.
QuedanRondasDeMenos(a) == i[a] < K - 1

\* First round of the outer loop still to run?  `for i in range(K)`.
QuedanRondas(a) == i[a] < K

\* Library a reader starts at.
BibliotecaInicial(a) == a % M

\* A reader that stays in the same library.
SiguienteMisma(p) == p

\* Library that follows p in the circular order.
Siguiente(p) == (p + 1) % M

Terminado(a) == pc[a] \in {"finalizado", "abandonado"}

(***************************************************************************)
(* ParteB_Ejercicio3.py: start state                                       *)
(***************************************************************************)
\* The vector of main and its four segments vector[0:5] .. vector[15:20].
vector == <<5, 12, 7, 3, 9, 15, 20, 8, 19, 6, 14, 2, 19, 4, 1, 1, 17, 19, 13, 16>>
segmentos ==
    <<SubSeq(vector, 1, 5), SubSeq(vector, 6, 10), SubSeq(vector, 11, 15),
      SubSeq(vector, 16, 20)>>
\* Search thread h is Segmento-h.
HilosBusqueda == 1 .. Len(segmentos)

\* contador_global = 0, lock unlocked, no thread created, nothing read yet.
ArranqueBusqueda ==
    /\ numero_a_buscar = Ninguno
    /\ contador_global = 0
    /\ lock = Libre
    /\ pcBuscar = [h \in HilosBusqueda |-> "no_iniciado"]
    /\ indice_relativo = [h \in HilosBusqueda |-> 0]
    /\ local_matches = [h \in HilosBusqueda |-> 0]
    /\ cargado = [h \in HilosBusqueda |-> 0]
    /\ principalBusqueda = [pc |-> "input", idx |-> 1, total |-> Ninguno]

(***************************************************************************)
(* ParteB_Ejercicio2.py: start state                                       *)
(***************************************************************************)
\* N = 3, the size of the matrices (named N in that program).
NMatriz == 3
Filas == 0 .. (NMatriz - 1)
\* [[0] * N for _ in range(N)]
Ceros == [f \in Filas |-> [c \in Filas |-> 0]]

\* Sum of the first n entries of matrix m, row by row.
RECURSIVE SumaHasta(_, _)
SumaHasta(m, n) ==
    IF n = 0 THEN 0
    ELSE m[(n - 1) \div NMatriz][(n - 1) % NMatriz] + SumaHasta(m, n - 1)
Peso(m) == SumaHasta(m, NMatriz * NMatriz)
\* The matrices of naturals whose entries add up to at most n: the zero matrix
\* with up to n units added to its cells.
RECURSIVE Matrices(_)
Matrices(n) ==
    IF n = 0 THEN {Ceros}
    ELSE LET menores == Matrices(n - 1)
         IN  menores \cup {[m EXCEPT ![f][c] = @ + 1] :
                              m \in menores, f \in Filas, c \in Filas}

\* The three matrices are zero and no row thread exists.
ArranqueSuma ==
    /\ matriz_a = Ceros
    /\ matriz_b = Ceros
    /\ matriz_c = Ceros
    /\ pcFila = [f \in Filas |-> "no_iniciado"]
    /\ columna = [f \in Filas |-> 0]
    /\ resultado = [f \in Filas |-> 0]
    /\ principalSuma = [pc |-> "rellenar_A", idx |-> 0, impreso |-> Ceros]

\* The module's globals and the threads before the program runs.
Arranque ==
    /\ ArranqueBusqueda
    /\ ArranqueSuma
    /\ bibliotecas = [p \in Bibliotecas |-> [s \in Libros |-> 1]]
    /\ mutex_bibliotecas = [p \in Bibliotecas |-> Libre]
    /\ pc = [a \in Lectores |-> "no_iniciado"]
    /\ biblioteca_actual = [a \in Lectores |-> Ninguno]
    /\ i = [a \in Lectores |-> 0]
    /\ libro_tomado = [a \in Lectores |-> Ninguno]
    /\ k = [a \in Lectores |-> 0]
    /\ lock_actual = [a \in Lectores |-> Ninguno]
    /\ biblioteca_siguiente = [a \in Lectores |-> Ninguno]
    /\ traza = [a \in Lectores |-> <<>>]
    /\ historial = [a \in Lectores |-> <<>>]
    /\ principal = [pc |-> "crear", idx |-> 0]
    /\ trazaPrincipal = <<>>
    /\ interrupcion = ""

Init ==
    /\ N \in 1 .. MaxN
    /\ M \in 1 .. MaxM
    /\ K \in 1 .. MaxK
    /\ N * K <= MaxRondas
    /\ Arranque

Registrar(a, linea) == traza' = [traza EXCEPT ![a] = Append(@, linea)]
Anotar(a, hecho) == historial' = [historial EXCEPT ![a] = Append(@, hecho)]

(***************************************************************************)
(* funcion_lector                                                          *)
(***************************************************************************)

\* biblioteca_actual = id_lector % M, and the "inicio" trace line.
Inicio(a) ==
    /\ pc[a] = "inicio"
    /\ biblioteca_actual' = [biblioteca_actual EXCEPT ![a] = BibliotecaInicial(a)]
    /\ Registrar(a, <<"inicio", BibliotecaInicial(a)>>)
    /\ pc' = [pc EXCEPT ![a] = "for"]
    /\ UNCHANGED <<config, parteB, bibliotecas, mutex_bibliotecas, i, libro_tomado, k,
                   lock_actual, biblioteca_siguiente, historial, hiloPrincipal>>

\* Head of `for i in range(K)`: a new round, or the for-else ("finaliza").
For(a) ==
    /\ pc[a] = "for"
    /\ IF QuedanRondas(a)
       THEN /\ libro_tomado' = [libro_tomado EXCEPT ![a] = Ninguno]
            /\ lock_actual' = [lock_actual EXCEPT ![a] = biblioteca_actual[a]]
            /\ pc' = [pc EXCEPT ![a] = "with_tomar"]
            /\ UNCHANGED traza
       ELSE /\ Registrar(a, <<"finaliza", biblioteca_actual[a]>>)
            /\ pc' = [pc EXCEPT ![a] = "finalizado"]
            /\ UNCHANGED <<libro_tomado, lock_actual>>
    /\ UNCHANGED <<config, parteB, bibliotecas, mutex_bibliotecas, biblioteca_actual, i, k,
                   biblioteca_siguiente, historial, hiloPrincipal>>

\* First `with lock_actual:` entered; the scan starts at book 0.
EntrarTomar(a) ==
    /\ pc[a] = "with_tomar"
    /\ LockLibre(lock_actual[a])
    /\ mutex_bibliotecas' = [mutex_bibliotecas EXCEPT ![lock_actual[a]] = a]
    /\ k' = [k EXCEPT ![a] = PrimerLibro]
    /\ Anotar(a, <<"intento", biblioteca_actual[a]>>)
    /\ pc' = [pc EXCEPT ![a] = "buscar"]
    /\ UNCHANGED <<config, parteB, bibliotecas, biblioteca_actual, i, libro_tomado,
                   lock_actual, biblioteca_siguiente, traza, hiloPrincipal>>

\* One round of `for k in range(K)`: `if bibliotecas[biblioteca_actual][k] == 1`.
Buscar(a) ==
    /\ pc[a] = "buscar"
    /\ IF k[a] < K
       THEN IF Disponible(biblioteca_actual[a], k[a])
            THEN /\ pc' = [pc EXCEPT ![a] = "marcar"]
                 /\ UNCHANGED k
            ELSE /\ k' = [k EXCEPT ![a] = @ + 1]
                 /\ UNCHANGED pc
       ELSE /\ pc' = [pc EXCEPT ![a] = "salir_tomar"]
            /\ UNCHANGED k
    /\ UNCHANGED <<config, parteB, bibliotecas, mutex_bibliotecas, biblioteca_actual, i,
                   libro_tomado, lock_actual, biblioteca_siguiente, traza, historial,
                   hiloPrincipal>>

\* bibliotecas[biblioteca_actual][k] = 0 and libro_tomado = k.
Marcar(a) ==
    /\ pc[a] = "marcar"
    /\ bibliotecas' = [bibliotecas EXCEPT ![biblioteca_actual[a]][k[a]] = 0]
    /\ libro_tomado' = [libro_tomado EXCEPT ![a] = k[a]]
    /\ Anotar(a, <<"toma", biblioteca_actual[a], k[a]>>)
    /\ pc' = [pc EXCEPT ![a] = "log_obtiene"]
    /\ UNCHANGED <<config, parteB, mutex_bibliotecas, biblioteca_actual, i, k, lock_actual,
                   biblioteca_siguiente, traza, hiloPrincipal>>

\* A taking that leaves no line in the trace.
LogObtieneSinTraza(a) ==
    /\ pc[a] = "log_obtiene"
    /\ pc' = [pc EXCEPT ![a] = "salir_tomar"]
    /\ UNCHANGED <<config, parteB, bibliotecas, mutex_bibliotecas, locales, traza, historial,
                   hiloPrincipal>>

\* print + "obtiene_libro" trace line, still inside the with; then break.
LogObtiene(a) ==
    /\ pc[a] = "log_obtiene"
    /\ Registrar(a, <<"obtiene_libro", biblioteca_actual[a], libro_tomado[a]>>)
    /\ pc' = [pc EXCEPT ![a] = "salir_tomar"]
    /\ UNCHANGED <<config, parteB, bibliotecas, mutex_bibliotecas, locales, historial,
                   hiloPrincipal>>

\* An exit of the first with that leaves the Lock locked.
SalirTomarSinLiberar(a) ==
    /\ pc[a] = "salir_tomar"
    /\ pc' = [pc EXCEPT ![a] = IF libro_tomado[a] # Ninguno THEN "leer" ELSE "abandona"]
    /\ UNCHANGED <<config, parteB, bibliotecas, mutex_bibliotecas, locales, traza, historial,
                   hiloPrincipal>>

\* End of the first with: the Lock is released; `if libro_tomado != -1`.
SalirTomar(a) ==
    /\ pc[a] = "salir_tomar"
    /\ mutex_bibliotecas' = [mutex_bibliotecas EXCEPT ![lock_actual[a]] = Libre]
    /\ pc' = [pc EXCEPT ![a] = IF libro_tomado[a] # Ninguno THEN "leer" ELSE "abandona"]
    /\ UNCHANGED <<config, parteB, bibliotecas, locales, traza, historial, hiloPrincipal>>

\* time.sleep(...) and biblioteca_siguiente = (biblioteca_actual + 1) % M.
Leer(a) ==
    /\ pc[a] = "leer"
    /\ biblioteca_siguiente' = [biblioteca_siguiente EXCEPT ![a] = Siguiente(biblioteca_actual[a])]
    /\ pc' = [pc EXCEPT ![a] = "with_devolver"]
    /\ UNCHANGED <<config, parteB, bibliotecas, mutex_bibliotecas, biblioteca_actual, i,
                   libro_tomado, k, lock_actual, traza, historial, hiloPrincipal>>

\* A giving back that does not take the Lock.
EntrarDevolverSinLock(a) ==
    /\ pc[a] = "with_devolver"
    /\ pc' = [pc EXCEPT ![a] = "devolver"]
    /\ UNCHANGED <<config, parteB, bibliotecas, mutex_bibliotecas, locales, traza, historial,
                   hiloPrincipal>>

\* Second `with lock_actual:` entered.
EntrarDevolver(a) ==
    /\ pc[a] = "with_devolver"
    /\ LockLibre(lock_actual[a])
    /\ mutex_bibliotecas' = [mutex_bibliotecas EXCEPT ![lock_actual[a]] = a]
    /\ pc' = [pc EXCEPT ![a] = "devolver"]
    /\ UNCHANGED <<config, parteB, bibliotecas, locales, traza, historial, hiloPrincipal>>

\* A giving back that leaves the book marked as taken.
DevolverOlvida(a) ==
    /\ pc[a] = "devolver"
    /\ Anotar(a, <<"devuelve", biblioteca_actual[a], libro_tomado[a]>>)
    /\ pc' = [pc EXCEPT ![a] = "log_devuelve"]
    /\ UNCHANGED <<config, parteB, bibliotecas, mutex_bibliotecas, locales, traza, hiloPrincipal>>

\* A giving back of the first book of the library, whichever was taken.
DevolverPrimero(a) ==
    /\ pc[a] = "devolver"
    /\ bibliotecas' = [bibliotecas EXCEPT ![biblioteca_actual[a]][0] = 1]
    /\ Anotar(a, <<"devuelve", biblioteca_actual[a], 0>>)
    /\ pc' = [pc EXCEPT ![a] = "log_devuelve"]
    /\ UNCHANGED <<config, parteB, mutex_bibliotecas, locales, traza, hiloPrincipal>>

\* bibliotecas[biblioteca_actual][libro_tomado] = 1.
Devolver(a) ==
    /\ pc[a] = "devolver"
    /\ bibliotecas' = [bibliotecas EXCEPT ![biblioteca_actual[a]][libro_tomado[a]] = 1]
    /\ Anotar(a, <<"devuelve", biblioteca_actual[a], libro_tomado[a]>>)
    /\ pc' = [pc EXCEPT ![a] = "log_devuelve"]
    /\ UNCHANGED <<config, parteB, mutex_bibliotecas, locales, traza, hiloPrincipal>>

\* print + "devuelve_libro" trace line, still inside the with.
LogDevuelve(a) ==
    /\ pc[a] = "log_devuelve"
    /\ Registrar(a, <<"devuelve_libro", biblioteca_actual[a], libro_tomado[a]>>)
    /\ pc' = [pc EXCEPT ![a] = "salir_devolver"]
    /\ UNCHANGED <<config, parteB, bibliotecas, mutex_bibliotecas, locales, historial,
                   hiloPrincipal>>

\* An exit of the second with that leaves the Lock locked.
SalirDevolverSinLiberar(a) ==
    /\ pc[a] = "salir_devolver"
    /\ pc' = [pc EXCEPT ![a] = "cambia"]
    /\ UNCHANGED <<config, parteB, bibliotecas, mutex_bibliotecas, locales, traza, historial,
                   hiloPrincipal>>

\* End of the second with: the Lock is released.
SalirDevolver(a) ==
    /\ pc[a] = "salir_devolver"
    /\ mutex_bibliotecas' = [mutex_bibliotecas EXCEPT ![lock_actual[a]] = Libre]
    /\ pc' = [pc EXCEPT ![a] = "cambia"]
    /\ UNCHANGED <<config, parteB, bibliotecas, locales, traza, historial, hiloPrincipal>>

\* A move in which biblioteca_actual is one variable shared by all readers.
CambiaBibliotecaGlobal(a) ==
    /\ pc[a] = "cambia"
    /\ Registrar(a, <<"cambia_biblioteca", biblioteca_siguiente[a]>>)
    /\ biblioteca_actual' = [b \in Lectores |-> biblioteca_siguiente[a]]
    /\ Anotar(a, <<"avanza", biblioteca_siguiente[a]>>)
    /\ i' = [i EXCEPT ![a] = @ + 1]
    /\ pc' = [pc EXCEPT ![a] = "for"]
    /\ UNCHANGED <<config, parteB, bibliotecas, mutex_bibliotecas, libro_tomado, k,
                   lock_actual, biblioteca_siguiente, hiloPrincipal>>

\* "cambia_biblioteca" trace line, biblioteca_actual = biblioteca_siguiente,
\* the "terminando" print and the step of the outer for.
CambiaBiblioteca(a) ==
    /\ pc[a] = "cambia"
    /\ Registrar(a, <<"cambia_biblioteca", biblioteca_siguiente[a]>>)
    /\ biblioteca_actual' = [biblioteca_actual EXCEPT ![a] = biblioteca_siguiente[a]]
    /\ Anotar(a, <<"avanza", biblioteca_siguiente[a]>>)
    /\ i' = [i EXCEPT ![a] = @ + 1]
    /\ pc' = [pc EXCEPT ![a] = "for"]
    /\ UNCHANGED <<config, parteB, bibliotecas, mutex_bibliotecas, libro_tomado, k,
                   lock_actual, biblioteca_siguiente, hiloPrincipal>>

\* An else branch that tries the same library again instead of breaking.
AbandonaReintenta(a) ==
    /\ pc[a] = "abandona"
    /\ Registrar(a, <<"abandona", biblioteca_actual[a]>>)
    /\ pc' = [pc EXCEPT ![a] = "with_tomar"]
    /\ UNCHANGED <<config, parteB, bibliotecas, mutex_bibliotecas, locales, historial,
                   hiloPrincipal>>

\* else branch: print + "abandona" trace line, then break out of the for.
Abandona(a) ==
    /\ pc[a] = "abandona"
    /\ Registrar(a, <<"abandona", biblioteca_actual[a]>>)
    /\ pc' = [pc EXCEPT ![a] = "abandonado"]
    /\ UNCHANGED <<config, parteB, bibliotecas, mutex_bibliotecas, locales, historial,
                   hiloPrincipal>>

funcion_lector(a) ==
    \/ Inicio(a)
    \/ For(a)
    \/ EntrarTomar(a)
    \/ Buscar(a)
    \/ Marcar(a)
    \/ LogObtiene(a)
    \/ SalirTomar(a)
    \/ Leer(a)
    \/ EntrarDevolver(a)
    \/ Devolver(a)
    \/ LogDevuelve(a)
    \/ SalirDevolver(a)
    \/ CambiaBiblioteca(a)
    \/ Abandona(a)

(***************************************************************************)
(* __main__ and _ThreadContext                                             *)
(***************************************************************************)

RegistrarPrincipal(lineas) == trazaPrincipal' = trazaPrincipal \o lineas

\* "inicio_simulacion", then the N Thread objects with one "hilo_creado" each.
CrearHilos ==
    /\ principal.pc = "crear"
    /\ RegistrarPrincipal(<<<<"inicio_simulacion">>>>
                          \o [a \in 1 .. N |-> <<"hilo_creado", a - 1>>])
    /\ principal' = [pc |-> "enter", idx |-> 0]
    /\ UNCHANGED <<config, parteB, bibliotecas, mutex_bibliotecas, pc, locales, traza, historial,
                   interrupcion>>

\* stack.enter_context(_ThreadContext(hilo, log)): __enter__ starts the thread.
EnterContext ==
    /\ principal.pc = "enter"
    /\ principal.idx < N
    /\ pc' = [pc EXCEPT ![principal.idx] = "inicio"]
    /\ RegistrarPrincipal(<<<<"creacion_hilo", principal.idx>>>>)
    /\ principal' = IF principal.idx + 1 < N
                    THEN [principal EXCEPT !.idx = @ + 1]
                    ELSE [pc |-> "exit", idx |-> N - 1]
    /\ UNCHANGED <<config, parteB, bibliotecas, mutex_bibliotecas, locales, traza, historial,
                   interrupcion>>

\* An __exit__ that logs the join without waiting for the thread.
ExitContextSinEsperar ==
    /\ principal.pc = "exit"
    /\ RegistrarPrincipal(<<<<"join_hilo", principal.idx>>>>)
    /\ principal' = IF principal.idx > 0
                    THEN [principal EXCEPT !.idx = @ - 1]
                    ELSE [pc |-> "fin", idx |-> 0]
    /\ UNCHANGED <<config, parteB, bibliotecas, mutex_bibliotecas, pc, locales, traza, historial,
                   interrupcion>>

\* The ExitStack unwinds: __exit__ joins the threads, last entered first.
ExitContext ==
    /\ principal.pc = "exit"
    /\ Terminado(principal.idx)
    /\ RegistrarPrincipal(<<<<"join_hilo", principal.idx>>>>)
    /\ principal' = IF principal.idx > 0
                    THEN [principal EXCEPT !.idx = @ - 1]
                    ELSE [pc |-> "fin", idx |-> 0]
    /\ UNCHANGED <<config, parteB, bibliotecas, mutex_bibliotecas, pc, locales, traza, historial,
                   interrupcion>>

\* "Simulación finalizada." and the "fin_simulacion" trace line.
FinSimulacion ==
    /\ principal.pc = "fin"
    /\ RegistrarPrincipal(<<<<"fin_simulacion">>>>)
    /\ principal' = [principal EXCEPT !.pc = "terminado"]
    /\ UNCHANGED <<config, parteB, bibliotecas, mutex_bibliotecas, pc, locales, traza, historial,
                   interrupcion>>

Principal ==
    \/ CrearHilos
    \/ EnterContext
    \/ ExitContext
    \/ FinSimulacion

Next ==
    \/ Principal
    \/ \E a \in Lectores : funcion_lector(a)

Spec == Init /\ [][Next]_vars

\* The scheduler does not stop while some thread can run.
Equidad == WF_vars(Next)

FairSpec == Init /\ [][Next]_vars /\ Equidad

(***************************************************************************)
(* KeyboardInterrupt in the main thread                                    *)
(***************************************************************************)

\* Where the main thread goes when a KeyboardInterrupt is raised at its
\* position: straight to the except clause outside the ExitStack; inside it,
\* ExitStack.__exit__ first calls the __exit__ of every context entered and
\* not yet exited, whatever the exception, and raises again afterwards.  An
\* interrupt raised inside a join leaves that join and that context.
TrasInterrupcion ==
    CASE principal.pc \in {"crear", "fin"} -> [pc |-> "except", idx |-> 0]
      [] principal.pc = "enter" ->
            IF principal.idx > 0
            THEN [pc |-> "desapilar", idx |-> principal.idx - 1]
            ELSE [pc |-> "except", idx |-> 0]
      [] principal.pc \in {"exit", "desapilar"} ->
            IF principal.idx > 0
            THEN [pc |-> "desapilar", idx |-> principal.idx - 1]
            ELSE [pc |-> "except", idx |-> 0]

\* The operator presses Ctrl-C while the main thread is inside the try.
Interrupcion ==
    /\ principal.pc \in {"crear", "enter", "exit", "desapilar", "fin"}
    /\ interrupcion' = IF interrupcion = "" THEN principal.pc ELSE interrupcion
    /\ principal' = TrasInterrupcion
    /\ UNCHANGED <<config, parteB, bibliotecas, mutex_bibliotecas, pc, locales, traza, historial,
                   trazaPrincipal>>

\* ExitStack.__exit__ with the exception pending: the next context's
\* __exit__ joins its thread and logs "join_hilo".
Desapilar ==
    /\ principal.pc = "desapilar"
    /\ Terminado(principal.idx)
    /\ RegistrarPrincipal(<<<<"join_hilo", principal.idx>>>>)
    /\ principal' = IF principal.idx > 0
                    THEN [principal EXCEPT !.idx = @ - 1]
                    ELSE [pc |-> "except", idx |-> 0]
    /\ UNCHANGED <<config, parteB, bibliotecas, mutex_bibliotecas, pc, locales, traza, historial,
                   interrupcion>>

\* except KeyboardInterrupt: the message and the "interrupcion" trace line.
ManejarInterrupcion ==
    /\ principal.pc = "except"
    /\ RegistrarPrincipal(<<<<"interrupcion">>>>)
    /\ principal' = [principal EXCEPT !.pc = "terminado"]
    /\ UNCHANGED <<config, parteB, bibliotecas, mutex_bibliotecas, pc, locales, traza, historial,
                   interrupcion>>

NextInterrupcion ==
    \/ Next
    \/ Interrupcion
    \/ Desapilar
    \/ ManejarInterrupcion

SpecInterrupcion == Init /\ [][NextInterrupcion]_vars

\* Five readers, one library with one book.
InitCinco == N = 5 /\ M = 1 /\ K = 1 /\ Arranque

SpecCinco == InitCinco /\ [][Next]_vars

(***************************************************************************)
(* The program with its own N = 10, M = 3, K = 5, in the runs of one       *)
(* schedule: the main thread runs whenever it can, the readers that are    *)
(* not asleep run one at a time, lowest id first, and when all the readers *)
(* still running are asleep in time.sleep the one to wake up is the one    *)
(* in the library of highest index, lowest id first.                       *)
(***************************************************************************)
InitDefecto == N = 10 /\ M = 3 /\ K = 5 /\ Arranque

\* The main thread is not blocked in a join.
PrincipalListo ==
    \/ principal.pc \in {"crear", "enter", "fin"}
    \/ principal.pc = "exit" /\ Terminado(principal.idx)

\* Readers inside time.sleep, and readers running outside it.
Dormidos == {a \in Lectores : pc[a] = "leer"}
Despiertos ==
    {a \in Lectores : pc[a] \notin {"no_iniciado", "leer", "finalizado", "abandonado"}}

\* The reader the schedule lets run next.
Turno(a) ==
    /\ ~PrincipalListo
    /\ IF Despiertos # {}
       THEN a \in Despiertos /\ \A b \in Despiertos : a <= b
       ELSE /\ a \in Dormidos
            /\ \A b \in Dormidos :
                  \/ biblioteca_actual[b] < biblioteca_actual[a]
                  \/ biblioteca_actual[b] = biblioteca_actual[a] /\ a <= b

NextDefecto == Principal \/ \E a \in Lectores : Turno(a) /\ funcion_lector(a)
SpecDefecto == InitDefecto /\ [][NextDefecto]_vars /\ WF_vars(NextDefecto)

(***************************************************************************)
(* ParteB_Ejercicio3.py: buscar_numero, one action per step of thread h    *)
(***************************************************************************)
parteC == <<config, bibliotecas, mutex_bibliotecas, pc, locales, traza, historial,
            hiloPrincipal>>

\* A `with lock` that never waits.
LockIgnorado == TRUE

\* `with lock` blocks until the lock is unlocked.
LockDisponible == lock = Libre

\* for indice_relativo, num in enumerate(segmento): compare one element, or
\* leave the loop when the segment is exhausted.
Comparar(h) ==
    /\ pcBuscar[h] = "comparar"
    /\ IF indice_relativo[h] < Len(segmentos[h])
       THEN /\ local_matches' =
                 IF segmentos[h][indice_relativo[h] + 1] = numero_a_buscar
                 THEN [local_matches EXCEPT ![h] = @ + 1]
                 ELSE local_matches
            /\ indice_relativo' = [indice_relativo EXCEPT ![h] = @ + 1]
            /\ UNCHANGED pcBuscar
       ELSE /\ pcBuscar' = [pcBuscar EXCEPT ![h] = "with_lock"]
            /\ UNCHANGED <<local_matches, indice_relativo>>
    /\ UNCHANGED <<parteC, suma, numero_a_buscar, contador_global, lock, cargado,
                   principalBusqueda>>

\* with lock: (enter)
EntrarLock(h) ==
    /\ pcBuscar[h] = "with_lock"
    /\ LockDisponible
    /\ lock' = h
    /\ pcBuscar' = [pcBuscar EXCEPT ![h] = "cargar"]
    /\ UNCHANGED <<parteC, suma, numero_a_buscar, contador_global, indice_relativo,
                   local_matches, cargado, principalBusqueda>>

\* contador_global += local_matches, first half: the global is loaded.
Cargar(h) ==
    /\ pcBuscar[h] = "cargar"
    /\ cargado' = [cargado EXCEPT ![h] = contador_global]
    /\ pcBuscar' = [pcBuscar EXCEPT ![h] = "guardar"]
    /\ UNCHANGED <<parteC, suma, numero_a_buscar, contador_global, lock,
                   indice_relativo, local_matches, principalBusqueda>>

\* contador_global += local_matches, second half: the sum is stored.
Guardar(h) ==
    /\ pcBuscar[h] = "guardar"
    /\ contador_global' = cargado[h] + local_matches[h]
    /\ pcBuscar' = [pcBuscar EXCEPT ![h] = "salir_lock"]
    /\ UNCHANGED <<parteC, suma, numero_a_buscar, lock, indice_relativo,
                   local_matches, cargado, principalBusqueda>>

\* End of the with block (the lock is released), print, "fin" line, return.
SalirLock(h) ==
    /\ pcBuscar[h] = "salir_lock"
    /\ lock' = IF lock = h THEN Libre ELSE lock
    /\ pcBuscar' = [pcBuscar EXCEPT ![h] = "terminado"]
    /\ UNCHANGED <<parteC, suma, numero_a_buscar, contador_global, indice_relativo,
                   local_matches, cargado, principalBusqueda>>

buscar_numero(h) ==
    \/ Comparar(h)
    \/ EntrarLock(h)
    \/ Cargar(h)
    \/ Guardar(h)
    \/ SalirLock(h)

(***************************************************************************)
(* ParteB_Ejercicio3.py: main                                              *)
(***************************************************************************)
\* numero_a_buscar = int(input(...)) with an integer typed.
LeerNumero ==
    /\ principalBusqueda.pc = "input"
    /\ \E numero \in 0 .. MaxNumero : numero_a_buscar' = numero
    /\ principalBusqueda' = [principalBusqueda EXCEPT !.pc = "enter"]
    /\ UNCHANGED <<parteC, suma, contador_global, lock, pcBuscar, indice_relativo,
                   local_matches, cargado>>

\* int(input(...)) raises ValueError: except ValueError, no thread is created.
EntradaInvalida ==
    /\ principalBusqueda.pc = "input"
    /\ principalBusqueda' = [principalBusqueda EXCEPT !.pc = "entrada_invalida"]
    /\ UNCHANGED <<parteC, suma, numero_a_buscar, contador_global, lock, pcBuscar,
                   indice_relativo, local_matches, cargado>>

\* stack.enter_context(_ThreadContext(hilo, logger)): thread idx is created
\* and started; after the last one the with block ends.
EnterContextBusqueda ==
    /\ principalBusqueda.pc = "enter"
    /\ pcBuscar' = [pcBuscar EXCEPT ![principalBusqueda.idx] = "comparar"]
    /\ principalBusqueda' =
          IF principalBusqueda.idx < Len(segmentos)
          THEN [principalBusqueda EXCEPT !.idx = @ + 1]
          ELSE [principalBusqueda EXCEPT !.pc = "exit"]
    /\ UNCHANGED <<parteC, suma, numero_a_buscar, contador_global, lock,
                   indice_relativo, local_matches, cargado>>

\* _ThreadContext.__exit__: hilo.join() of thread idx, last entered first.
ExitContextBusqueda ==
    /\ principalBusqueda.pc = "exit"
    /\ pcBuscar[principalBusqueda.idx] = "terminado"
    /\ principalBusqueda' =
          IF principalBusqueda.idx > 1
          THEN [principalBusqueda EXCEPT !.idx = @ - 1]
          ELSE [principalBusqueda EXCEPT !.pc = "resultado"]
    /\ UNCHANGED <<parteC, suma, numero_a_buscar, contador_global, lock, pcBuscar,
                   indice_relativo, local_matches, cargado>>

\* print and "resultado" line with the value of contador_global.
Resultado ==
    /\ principalBusqueda.pc = "resultado"
    /\ principalBusqueda' =
          [principalBusqueda EXCEPT !.pc = "terminado", !.total = contador_global]
    /\ UNCHANGED <<parteC, suma, numero_a_buscar, contador_global, lock, pcBuscar,
                   indice_relativo, local_matches, cargado>>

PrincipalBusqueda ==
    \/ LeerNumero
    \/ EntradaInvalida
    \/ EnterContextBusqueda
    \/ ExitContextBusqueda
    \/ Resultado

\* ParteC as a program that is not run.
SinParteC == N = 1 /\ M = 1 /\ K = 1

InitBusqueda == SinParteC /\ Arranque
NextBusqueda == PrincipalBusqueda \/ \E h \in HilosBusqueda : buscar_numero(h)
SpecBusqueda == InitBusqueda /\ [][NextBusqueda]_vars

(***************************************************************************)
(* ParteB_Ejercicio2.py: MiHilo.run, one action per step of row thread f   *)
(***************************************************************************)
\* for i in range(N): valor_a, valor_b, resultado = valor_a + valor_b; or
\* the end of run when the row is done.
Calcular(f) ==
    /\ pcFila[f] = "for"
    /\ IF columna[f] < NMatriz
       THEN /\ resultado' =
                 [resultado EXCEPT ![f] = matriz_a[f][columna[f]] + matriz_b[f][columna[f]]]
            /\ pcFila' = [pcFila EXCEPT ![f] = "escribir"]
       ELSE /\ pcFila' = [pcFila EXCEPT ![f] = "terminado"]
            /\ UNCHANGED resultado
    /\ UNCHANGED <<parteC, busqueda, matriz_a, matriz_b, matriz_c, columna,
                   principalSuma>>

\* A thread that writes its sums down its column of C instead of along its row.
EscribirTraspuesta(f) ==
    /\ pcFila[f] = "escribir"
    /\ matriz_c' = [matriz_c EXCEPT ![columna[f]][f] = resultado[f]]
    /\ columna' = [columna EXCEPT ![f] = @ + 1]
    /\ pcFila' = [pcFila EXCEPT ![f] = "for"]
    /\ UNCHANGED <<parteC, busqueda, matriz_a, matriz_b, resultado, principalSuma>>

\* self.mat_c[self.fila][i] = resultado, "iteracion" line, next i.
Escribir(f) ==
    /\ pcFila[f] = "escribir"
    /\ matriz_c' = [matriz_c EXCEPT ![f][columna[f]] = resultado[f]]
    /\ columna' = [columna EXCEPT ![f] = @ + 1]
    /\ pcFila' = [pcFila EXCEPT ![f] = "for"]
    /\ UNCHANGED <<parteC, busqueda, matriz_a, matriz_b, resultado, principalSuma>>

run(f) == Calcular(f) \/ Escribir(f)

(***************************************************************************)
(* ParteB_Ejercicio2.py: main                                              *)
(***************************************************************************)
\* rellenar_matriz(matriz, id_matriz, logger): every entry is asked for until
\* an integer is typed; the whole matrix is filled.
rellenar_matriz(id_matriz) ==
    /\ principalSuma.pc = "rellenar_" \o id_matriz
    /\ \E m \in Matrices(MaxPeso - Peso(matriz_a)) :
          /\ IF id_matriz = "A"
             THEN /\ matriz_a' = m
                  /\ UNCHANGED matriz_b
                  /\ principalSuma' = [principalSuma EXCEPT !.pc = "rellenar_B"]
             ELSE /\ matriz_b' = m
                  /\ UNCHANGED matriz_a
                  /\ principalSuma' = [principalSuma EXCEPT !.pc = "enter"]
    /\ UNCHANGED <<parteC, busqueda, matriz_c, pcFila, columna, resultado>>

\* stack.enter_context(_ThreadContext(hilo, logger)): row thread idx is
\* started; after the last one the with block ends.
EnterContextSuma ==
    /\ principalSuma.pc = "enter"
    /\ pcFila' = [pcFila EXCEPT ![principalSuma.idx] = "for"]
    /\ principalSuma' =
          IF principalSuma.idx < NMatriz - 1
          THEN [principalSuma EXCEPT !.idx = @ + 1]
          ELSE [principalSuma EXCEPT !.pc = "exit"]
    /\ UNCHANGED <<parteC, busqueda, matriz_a, matriz_b, matriz_c, columna, resultado>>

\* _ThreadContext.__exit__: hilo.join() of row thread idx, last entered first.
ExitContextSuma ==
    /\ principalSuma.pc = "exit"
    /\ pcFila[principalSuma.idx] = "terminado"
    /\ principalSuma' =
          IF principalSuma.idx > 0
          THEN [principalSuma EXCEPT !.idx = @ - 1]
          ELSE [principalSuma EXCEPT !.pc = "imprimir"]
    /\ UNCHANGED <<parteC, busqueda, matriz_a, matriz_b, matriz_c, pcFila, columna,
                   resultado>>

\* imprimir_resultado(matriz_c, logger) and the "fin" line.
imprimir_resultado ==
    /\ principalSuma.pc = "imprimir"
    /\ principalSuma' = [principalSuma EXCEPT !.pc = "terminado", !.impreso = matriz_c]
    /\ UNCHANGED <<parteC, busqueda, matriz_a, matriz_b, matriz_c, pcFila, columna,
                   resultado>>

PrincipalSuma ==
    \/ rellenar_matriz("A")
    \/ rellenar_matriz("B")
    \/ EnterContextSuma
    \/ ExitContextSuma
    \/ imprimir_resultado

InitSuma == SinParteC /\ Arranque
NextSuma == PrincipalSuma \/ \E f \in Filas : run(f)
SpecSuma == InitSuma /\ [][NextSuma]_vars

(***************************************************************************)
(* Properties                                                              *)
(***************************************************************************)

\* Last thing reader a did to the shared state (<<>> if nothing yet).
Ultimo(a) == IF historial[a] = <<>> THEN <<>> ELSE historial[a][Len(historial[a])]

\* Reader a took book s of library p and has not given it back.
Tiene(a, p, s) == Ultimo(a) = <<"toma", p, s>>

\* Readers that hold book s of library p.
Tenedores(p, s) == {a \in Lectores : Tiene(a, p, s)}

\* Reader a is inside one of its two `with lock_actual` blocks.
EnSeccionCritica(a) ==
    pc[a] \in {"buscar", "marcar", "log_obtiene", "salir_tomar",
               "devolver", "log_devuelve", "salir_devolver"}

\* The step appends `hecho` to what reader a did.
Hace(a, hecho) == historial'[a] = Append(historial[a], hecho)

\* C1: no book (library p, index s) is held by two readers at once, and a
\* reader takes a book only when nobody holds it, so that between two takings
\* of the same book there is always a giving back of that book.
C1_ExclusionMutua ==
    /\ [](\A p \in Bibliotecas : \A s \in Libros : Cardinality(Tenedores(p, s)) <= 1)
    /\ [][\A a \in Lectores : \A p \in Bibliotecas : \A s \in Libros :
            Hace(a, <<"toma", p, s>>) => Tenedores(p, s) = {}]_vars

\* C1 witness: a book was taken, given back and is held again by another
\* reader, while a second book of the same library is held too.
C1_Witness ==
    \E a \in Lectores : \E b \in Lectores \ {a} : \E c \in Lectores \ {a, b} :
    \E p \in Bibliotecas : \E s \in Libros : \E r \in Libros \ {s} :
        /\ Tiene(b, p, s)
        /\ Tiene(c, p, r)
        /\ \E j \in 1 .. Len(historial[a]) : historial[a][j] = <<"devuelve", p, s>>

\* Books of library p marked as taken.
Ocupados(p) == {s \in Libros : bibliotecas[p][s] = 0}

\* Readers that hold some book of library p.
TenedoresEn(p) == {a \in Lectores : \E s \in Libros : Tiene(a, p, s)}

\* C2: in every library the number of books marked taken is between 0 and K,
\* every flag being 0 or 1, and no more than K readers hold a book of it.
C2_SinSobreocupacion ==
    \A p \in Bibliotecas :
        /\ bibliotecas[p] \in [Libros -> {0, 1}]
        /\ Cardinality(Ocupados(p)) \in 0 .. K
        /\ Cardinality(TenedoresEn(p)) <= K

\* C2 witness: a library has all its K books taken while more than K readers
\* exist and one of them is waiting at that library.
C2_Witness ==
    \E p \in Bibliotecas :
        /\ N > K
        /\ Cardinality(Ocupados(p)) = K
        /\ Cardinality(TenedoresEn(p)) = K
        /\ \E a \in Lectores : pc[a] = "with_tomar" /\ lock_actual[a] = p

\* Reader a exists and its thread has been started.
Iniciado(a) == a < N /\ pc[a] # "no_iniciado"

\* C3: under weak fairness of thread scheduling every reader that has started
\* eventually ends, finalizado or abandonado; no reader waits for a lock for ever.
\* A started reader stays started and an ended reader stays ended, so this is
\* that from some moment on every started reader has ended.
C3_TodosTerminan ==
    <>[](\A a \in Lectores : Iniciado(a) => Terminado(a))

\* C3 witness: every reader has ended, one of them after having waited for a
\* lock that another reader held, some finalizado and some abandonado.
C3_Witness ==
    /\ N >= 2
    /\ \A a \in Lectores : Terminado(a)
    /\ \E a \in Lectores : pc[a] = "finalizado"
    /\ \E a \in Lectores : pc[a] = "abandonado"

\* Reader a is inside its first `with lock_actual` block (the taking).
EnBusqueda(a) == pc[a] \in {"buscar", "marcar", "log_obtiene", "salir_tomar"}

\* Every book of library p with an index below s is marked taken.
AnterioresOcupados(p, s) == \A r \in Libros : r < s => bibliotecas[p][r] = 0

\* What the taking of reader a has found so far, given where it stands.
BusquedaCorrecta(a) ==
    LET p == biblioteca_actual[a] IN
    /\ mutex_bibliotecas[p] = a
    /\ lock_actual[a] = p
    /\ pc[a] = "buscar" => AnterioresOcupados(p, k[a])
    /\ pc[a] = "marcar" =>
          /\ k[a] \in Libros
          /\ bibliotecas[p][k[a]] = 1
          /\ AnterioresOcupados(p, k[a])
    /\ pc[a] \in {"log_obtiene", "salir_tomar"} /\ libro_tomado[a] # Ninguno =>
          /\ libro_tomado[a] \in Libros
          /\ bibliotecas[p][libro_tomado[a]] = 0
          /\ AnterioresOcupados(p, libro_tomado[a])
          /\ Tiene(a, p, libro_tomado[a])
    /\ pc[a] = "salir_tomar" /\ libro_tomado[a] = Ninguno => Ocupados(p) = Libros
    /\ pc[a] = "salir_tomar" /\ Ocupados(p) = Libros /\ libro_tomado[a] # Ninguno =>
          Ocupados(p) \ {libro_tomado[a]} = Libros \ {libro_tomado[a]}

\* While reader a is in its taking, the only change to its library is its own
\* marking of the book it stands at.
BusquedaAtomica(a) ==
    LET p == biblioteca_actual[a] IN
    \/ bibliotecas'[p] = bibliotecas[p]
    \/ /\ pc[a] = "marcar"
       /\ pc'[a] = "log_obtiene"
       /\ bibliotecas' = [bibliotecas EXCEPT ![p][k[a]] = 0]
       /\ libro_tomado'[a] = k[a]

\* C4: the taking on library p runs under p's lock, nobody else changes p
\* meanwhile, it marks and returns the lowest-index book available, changes no
\* other book, and it returns none exactly when all K books of p are taken.
C4_PrimerDisponible ==
    /\ [](\A a \in Lectores : EnBusqueda(a) => BusquedaCorrecta(a))
    /\ [][\A a \in Lectores : EnBusqueda(a) => BusquedaAtomica(a)]_vars

\* C4 witness: a reader has just marked book 1 because book 0 was taken by
\* another reader, and a third one left its taking empty-handed.
C4_Witness ==
    \E a \in Lectores : \E b \in Lectores \ {a} :
        /\ pc[a] = "log_obtiene"
        /\ libro_tomado[a] = 1
        /\ Tiene(b, biblioteca_actual[a], 0)
        /\ \E c \in Lectores \ {a, b} : pc[c] \in {"abandona", "abandonado"}

\* The step is one of reader a.
PasoDe(a) == pc'[a] # pc[a] \/ k'[a] # k[a]

\* C5: every change of a book of library p, taken or given back, happens in a
\* state where the lock of p is held by the reader that makes the change.
C5_CambiosBajoLock ==
    [][\A p \in Bibliotecas : bibliotecas'[p] # bibliotecas[p] =>
          \E a \in Lectores :
              /\ PasoDe(a)
              /\ mutex_bibliotecas[p] = a
              /\ lock_actual[a] = p]_vars

\* C5 witness: a reader has given a book back while another reader, that
\* holds a book of the same library, waits for the lock to give it back.
C5_Witness ==
    \E a \in Lectores : \E b \in Lectores \ {a} :
        /\ pc[a] = "log_devuelve"
        /\ pc[b] = "with_devolver"
        /\ lock_actual[b] = lock_actual[a]

EsIntento(h) == h[1] = "intento"
EsToma(h) == h[1] = "toma"
EsDevuelve(h) == h[1] = "devuelve"
EsAvanza(h) == h[1] = "avanza"

\* The libraries on which reader a tried to take a book, in order.
Intentos(a) == SelectSeq(historial[a], EsIntento)
Tomas(a) == SelectSeq(historial[a], EsToma)
Devoluciones(a) == SelectSeq(historial[a], EsDevuelve)
Avances(a) == SelectSeq(historial[a], EsAvanza)

\* C6: reader a tries the libraries a mod M, (a+1) mod M, ... in that order,
\* once per visit, and it ends after K rounds with a book or at the first try
\* that finds none, whichever comes first.
C6_RecorridoCircular ==
    \A a \in Lectores :
        /\ \A j \in 1 .. Len(Intentos(a)) : Intentos(a)[j] = <<"intento", (a + j - 1) % M>>
        /\ Len(Intentos(a)) <= K
        /\ Len(Intentos(a)) \in {Len(Avances(a)), Len(Avances(a)) + 1}
        /\ Len(Tomas(a)) \in {Len(Intentos(a)), Len(Intentos(a)) - 1}
        /\ pc[a] = "finalizado" => Len(Tomas(a)) = K /\ Len(Avances(a)) = K
        /\ Len(Avances(a)) = K => pc[a] \in {"for", "finalizado"}
        /\ pc[a] = "abandonado" => Len(Tomas(a)) = Len(Intentos(a)) - 1
        /\ Len(Tomas(a)) < Len(Intentos(a)) =>
              pc[a] \in {"buscar", "marcar", "salir_tomar", "abandona", "abandonado"}

\* C6 witness: with two libraries, a reader that starts at library 1 has gone
\* round to library 0 and ended there, and another reader ended at its first
\* failed try.
C6_Witness ==
    /\ N >= 2
    /\ M = 2
    /\ K = 2
    /\ pc[1] = "finalizado"
    /\ Intentos(1) = <<<<"intento", 1>>, <<"intento", 0>>>>
    /\ \E a \in Lectores : pc[a] = "abandonado"

\* Reader a found no book: it left the scan with nothing, or already gave up.
SinLibro(a) ==
    \/ pc[a] = "salir_tomar" /\ libro_tomado[a] = Ninguno
    \/ pc[a] \in {"abandona", "abandonado"}

\* C7: a reader that finds no book in its library gives up at once: it leaves
\* the lock, ends abandonado, and from then on takes no lock, tries no library
\* again and changes no book.
C7_AbandonoTerminal ==
    /\ [](\A a \in Lectores : pc[a] \in {"abandona", "abandonado"} =>
             \A p \in Bibliotecas : mutex_bibliotecas[p] # a)
    /\ [][\A a \in Lectores : SinLibro(a) =>
             /\ SinLibro(a)'
             /\ historial'[a] = historial[a]
             /\ \A p \in Bibliotecas : mutex_bibliotecas'[p] = a => mutex_bibliotecas[p] = a
             /\ PasoDe(a) => /\ bibliotecas' = bibliotecas
                             /\ pc[a] = "salir_tomar" => pc'[a] = "abandona"
                             /\ pc[a] = "abandona" => pc'[a] = "abandonado"
             /\ pc[a] = "abandonado" => ~PasoDe(a)]_vars

\* C7 witness: a reader is abandonado while another one, after that, took a
\* book of the library where the first gave up.
C7_Witness ==
    \E a \in Lectores : \E b \in Lectores \ {a} :
        /\ pc[a] = "abandonado"
        /\ pc[b] = "log_obtiene"
        /\ biblioteca_actual[b] = biblioteca_actual[a]
        /\ Len(historial[b]) > 4

\* The j-th thing a reader that starts at library p0 does in a run without
\* failure, the books being those of the sequence h.
Esperado(p0, h, j) ==
    LET ronda == (j - 1) \div 4
        p == (p0 + ronda) % M
        fase == (j - 1) % 4
    IN  CASE fase = 0 -> <<"intento", p>>
          [] fase = 1 -> <<"toma", p, h[j][3]>>
          [] fase = 2 -> <<"devuelve", p, h[j - 1][3]>>
          [] fase = 3 -> <<"avanza", (p + 1) % M>>

\* C8: a reader that ends finalizado has taken exactly K books and given back
\* exactly K, in turn, each giving back being of the book taken in that round
\* and in the same library, and each followed by the move to the next library.
C8_CiclosCompletos ==
    \A a \in Lectores : pc[a] = "finalizado" =>
        /\ Len(historial[a]) = 4 * K
        /\ \A j \in 1 .. Len(historial[a]) : historial[a][j] = Esperado(a % M, historial[a], j)
        /\ Len(Tomas(a)) = K
        /\ Len(Devoluciones(a)) = K
        /\ biblioteca_actual[a] = (a + K) % M
        /\ i[a] = K

\* C8 witness: a reader ended finalizado after two rounds in which it took
\* book 1 once, while another reader gave up.
C8_Witness ==
    \E a \in Lectores :
        /\ K = 2
        /\ pc[a] = "finalizado"
        /\ \E j \in 1 .. Len(historial[a]) : \E p \in Bibliotecas : historial[a][j] = <<"toma", p, 1>>
        /\ \E b \in Lectores : pc[b] = "abandonado"

\* C9: a giving back is of the very book (same library, same index) the reader
\* took in this round, that book is marked taken at that moment, and the
\* giving back changes no other book of any library.
C9_DevuelveLoTomado ==
    [][\A a \in Lectores : \A p \in Bibliotecas : \A s \in Libros :
          Hace(a, <<"devuelve", p, s>>) =>
              /\ Tiene(a, p, s)
              /\ p = biblioteca_actual[a]
              /\ s = libro_tomado[a]
              /\ bibliotecas[p][s] = 0
              /\ bibliotecas' = [bibliotecas EXCEPT ![p][s] = 1]]_vars

\* C9 witness: a reader gave book 1 back while book 0 of the same library
\* stays taken by another reader.
C9_Witness ==
    \E a \in Lectores : \E b \in Lectores \ {a} : \E p \in Bibliotecas :
        /\ Ultimo(a) = <<"devuelve", p, 1>>
        /\ Tiene(b, p, 0)
        /\ bibliotecas[p] = [s \in Libros |-> IF s = 0 THEN 0 ELSE 1]

\* C10: a reader that is reading (its hold interval) holds no lock, so the
\* other readers can take and give back books of the same library meanwhile.
C10_LeerSinLock ==
    \A a \in Lectores : pc[a] = "leer" =>
        /\ \A p \in Bibliotecas : mutex_bibliotecas[p] # a
        /\ \A b \in Lectores \ {a} :
              pc[b] \in {"with_tomar", "with_devolver"} /\ LockLibre(lock_actual[b]) =>
                  ENABLED funcion_lector(b)

\* C10 witness: a reader is reading a book of a library while another reader
\* holds the lock of that same library and is about to mark a book of it.
C10_Witness ==
    \E a \in Lectores : \E b \in Lectores \ {a} :
        /\ pc[a] = "leer"
        /\ pc[b] = "marcar"
        /\ biblioteca_actual[b] = biblioteca_actual[a]
        /\ mutex_bibliotecas[biblioteca_actual[a]] = b

\* Locks that reader a holds.
LocksDe(a) == {p \in Bibliotecas : mutex_bibliotecas[p] = a}

\* Reader a stands at the entry of one of its `with lock_actual` blocks.
EsperaLock(a) == pc[a] \in {"with_tomar", "with_devolver"}

\* C11: a reader holds at most one library lock at any moment, and a reader
\* at the entry of the critical section of library A enters as soon as the
\* lock of A itself is free, whatever the locks and books of the other
\* libraries.
C11_LockPorBiblioteca ==
    \A a \in Lectores :
        /\ Cardinality(LocksDe(a)) <= 1
        /\ EsperaLock(a) /\ mutex_bibliotecas[lock_actual[a]] = Libre =>
              ENABLED (EntrarTomar(a) \/ EntrarDevolver(a))

\* C11 witness: a reader stands at the entry of a library whose lock is free
\* while another reader holds the lock of the other library, all of whose
\* books are taken.
C11_Witness ==
    \E a \in Lectores : \E b \in Lectores \ {a} : \E q \in Bibliotecas :
        /\ EsperaLock(a)
        /\ mutex_bibliotecas[lock_actual[a]] = Libre
        /\ q # lock_actual[a]
        /\ mutex_bibliotecas[q] = b
        /\ Ocupados(q) = Libros

\* Lines of the main thread's trace before the j-th that start a thread.
CreadosAntes(j) ==
    {h \in 1 .. (j - 1) : trazaPrincipal[h][1] = "creacion_hilo"}

\* C12: the main thread starts all N readers before it waits for any of
\* them, and it reports the end of the simulation only in a state where every
\* reader has ended, finalizado or abandonado.
C12_IniciaTodosYEspera ==
    /\ principal.pc \in {"exit", "fin", "terminado"} => \A a \in Lectores : Iniciado(a)
    /\ \A j \in 1 .. Len(trazaPrincipal) :
          trazaPrincipal[j][1] = "join_hilo" => Cardinality(CreadosAntes(j)) = N
    /\ principal.pc \in {"fin", "terminado"} => \A a \in Lectores : Terminado(a)
    /\ \A j \in 1 .. Len(trazaPrincipal) :
          trazaPrincipal[j][1] = "fin_simulacion" => \A a \in Lectores : Terminado(a)

\* C12 witness: the end of the simulation was reported with three readers,
\* one of which gave up.
C12_Witness ==
    /\ N = 3
    /\ principal.pc = "terminado"
    /\ trazaPrincipal[Len(trazaPrincipal)] = <<"fin_simulacion">>
    /\ \E a \in Lectores : pc[a] = "abandonado"

\* The run of one reader, two libraries and one book per library is over.
FinUnoDosUno == N = 1 /\ M = 2 /\ K = 1 /\ pc[0] = "finalizado"

TodosDisponibles == \A p \in Bibliotecas : \A s \in Libros : bibliotecas[p][s] = 1

\* C13 as stated: with N=1, M=2, K=1 the reader takes and gives back the book
\* of library 0, moves to library 1, takes and gives back its book, and is
\* finalizado after exactly 2 rounds, both books available.
C13_DosRondas ==
    FinUnoDosUno =>
        /\ historial[0] = << <<"intento", 0>>, <<"toma", 0, 0>>, <<"devuelve", 0, 0>>,
                            <<"avanza", 1>>,
                            <<"intento", 1>>, <<"toma", 1, 0>>, <<"devuelve", 1, 0>>,
                            <<"avanza", 0>> >>
        /\ i[0] = 2
        /\ TodosDisponibles

\* C13 amended: with N=1, M=2, K=1 the reader takes and gives back the book of
\* library 0, moves to library 1 and is finalizado after exactly 1 round (K
\* rounds), without trying library 1; both books end available.
C13_UnaRonda ==
    /\ N = 1 /\ M = 2 /\ K = 1 => pc[0] # "abandonado" /\ Len(historial[0]) <= 4
    /\ FinUnoDosUno =>
        /\ historial[0] = << <<"intento", 0>>, <<"toma", 0, 0>>, <<"devuelve", 0, 0>>,
                            <<"avanza", 1>> >>
        /\ i[0] = 1
        /\ biblioteca_actual[0] = 1
        /\ TodosDisponibles

\* C13 witness: that run is over.
C13_Witness == FinUnoDosUno /\ principal.pc = "terminado"

TodosTerminados == \A a \in Lectores : Terminado(a)
Finalizados == {a \in Lectores : pc[a] = "finalizado"}
Abandonados == {a \in Lectores : pc[a] = "abandonado"}

\* C14 as stated: with N=5, M=1, K=1, once every reader has ended, the
\* number of readers finalizado is 5.
C14_CincoFinalizados ==
    TodosTerminados => Cardinality(Finalizados) = 5

\* C14 amended: with N=5, M=1, K=1, once every reader has ended, the number
\* of readers finalizado is at least 1 and at most 5: it is 5 less the number
\* of readers that found the book taken at their try, which are abandonado
\* without having taken it; each reader finalizado took the book once.
C14_AlMenosUnFinalizado ==
    TodosTerminados =>
        /\ Cardinality(Finalizados) \in 1 .. 5
        /\ Cardinality(Finalizados) = 5 - Cardinality(Abandonados)
        /\ \A a \in Abandonados : Intentos(a) = << <<"intento", 0>> >> /\ Tomas(a) = <<>>
        /\ \A a \in Finalizados : Tomas(a) = << <<"toma", 0, 0>> >>

\* C14 witness: the five readers have ended, three of them finalizado and two
\* abandonado.
C14_Witness ==
    /\ N = 5
    /\ TodosTerminados
    /\ Cardinality(Finalizados) = 3
    /\ Cardinality(Abandonados) = 2

\* C15: with N=5, M=1, K=1 the five readers start at library 0, at most one
\* reader holds the only book in any state, and every reader ends either
\* finalizado with exactly 1 round done or abandonado at library 0 on its
\* first try with 0 rounds done.
C15_UnLibroCincoLectores ==
    /\ Cardinality(Tenedores(0, 0)) <= 1
    /\ \A a \in Lectores :
          /\ pc[a] \notin {"no_iniciado", "inicio"} => biblioteca_actual[a] = 0
          /\ traza[a] # <<>> => traza[a][1] = <<"inicio", 0>>
          /\ historial[a] # <<>> => historial[a][1] = <<"intento", 0>>
          /\ Terminado(a) =>
                \/ /\ pc[a] = "finalizado"
                   /\ i[a] = 1
                   /\ historial[a] = << <<"intento", 0>>, <<"toma", 0, 0>>,
                                       <<"devuelve", 0, 0>>, <<"avanza", 0>> >>
                \/ /\ pc[a] = "abandonado"
                   /\ i[a] = 0
                   /\ historial[a] = << <<"intento", 0>> >>
                   /\ traza[a] = << <<"inicio", 0>>, <<"abandona", 0>> >>

\* C15 witness: one reader holds the book and reads, another is finalizado,
\* another abandonado and another waits for the lock.
C15_Witness ==
    /\ N = 5
    /\ \E a \in Lectores : pc[a] = "leer" /\ Tiene(a, 0, 0)
    /\ \E a \in Lectores : pc[a] = "finalizado"
    /\ \E a \in Lectores : pc[a] = "abandonado"
    /\ \E a \in Lectores : pc[a] = "with_tomar"

\* The only reader of a run is finalizado after K rounds and every book of
\* every library is available.
SoloFinalizado ==
    /\ pc[0] = "finalizado"
    /\ i[0] = K
    /\ Len(Tomas(0)) = K
    /\ Len(Devoluciones(0)) = K
    /\ TodosDisponibles

\* C16: a reader run alone (N=1) from the state where every book of every
\* library is available never gives up, runs its K rounds to the end, and
\* ends with every book of every library available.
C16_LectorSolo ==
    /\ [](N = 1 => /\ pc[0] \notin {"abandona", "abandonado"}
                   /\ pc[0] = "finalizado" => SoloFinalizado)
    /\ (N = 1 => <>[]SoloFinalizado)

\* C16 witness: a lone reader is finalizado after two rounds over two
\* libraries, all books available.
C16_Witness == N = 1 /\ M = 2 /\ K = 2 /\ SoloFinalizado

\* The step adds a line to the trace of reader a; the line added.
Emite(a) == traza'[a] # traza[a]
UltimaLinea(a) == traza[a][Len(traza[a])]

EsObtiene(l) == l[1] = "obtiene_libro"
EsDevuelveLibro(l) == l[1] = "devuelve_libro"
EsAbandona(l) == l[1] = "abandona"
EsFinaliza(l) == l[1] = "finaliza"
\* A line for the attempt to take a library's lock.
EsIntentoLock(l) == l[1] = "intento_lock"

\* The trace of reader a has one line `clase` per entry of `hechos`, with
\* the same library and book, but for the `falta` last entries.
LineasSegun(a, Es(_), clase, hechos, falta) ==
    LET lineas == SelectSeq(traza[a], Es)
    IN  /\ Len(lineas) = Len(hechos) - falta
        /\ \A j \in 1 .. Len(lineas) : lineas[j] = <<clase, hechos[j][2], hechos[j][3]>>

\* What the trace of reader a says of its takings, givings back and end.
TrazaDeLibros(a) ==
    /\ LineasSegun(a, EsObtiene, "obtiene_libro", Tomas(a),
                   IF pc[a] = "log_obtiene" THEN 1 ELSE 0)
    /\ LineasSegun(a, EsDevuelveLibro, "devuelve_libro", Devoluciones(a),
                   IF pc[a] = "log_devuelve" THEN 1 ELSE 0)
    /\ pc[a] = "abandonado" =>
          /\ UltimaLinea(a) = <<"abandona", Intentos(a)[Len(Intentos(a))][2]>>
          /\ Len(SelectSeq(traza[a], EsAbandona)) = 1
    /\ pc[a] # "abandonado" => SelectSeq(traza[a], EsAbandona) = <<>>
    /\ pc[a] = "finalizado" =>
          /\ UltimaLinea(a)[1] = "finaliza"
          /\ Len(SelectSeq(traza[a], EsFinaliza)) = 1
    /\ pc[a] # "finalizado" => SelectSeq(traza[a], EsFinaliza) = <<>>

\* C18 as stated: each reader emits a line for every attempt to take a
\* library lock, every taking (library and book), every giving back (library
\* and book), its giving up (with the library) and its completion.
C18_TrazaConIntentos ==
    \A a \in Lectores :
        /\ TrazaDeLibros(a)
        /\ Terminado(a) => Len(SelectSeq(traza[a], EsIntentoLock)) = Len(Intentos(a))

\* C18 amended: each reader emits, in its own trace, a line for every taking
\* (library and book), every giving back (library and book), its giving up
\* (with the library where it happened) and its completion; it emits no line
\* for an attempt to take a library lock.
C18_TrazaSinIntentos ==
    /\ [](\A a \in Lectores : TrazaDeLibros(a))
    /\ [][\A a \in Lectores : \A p \in Bibliotecas :
            Hace(a, <<"intento", p>>) => traza' = traza]_vars

\* C18 witness: a reader is finalizado with the lines of two takings, one of
\* them of book 1, and another reader gave up.
C18_Witness ==
    \E a \in Lectores : \E b \in Lectores \ {a} :
        /\ pc[a] = "finalizado"
        /\ Len(SelectSeq(traza[a], EsObtiene)) = 2
        /\ \E j \in 1 .. Len(traza[a]) : \E p \in Bibliotecas :
              traza[a][j] = <<"obtiene_libro", p, 1>>
        /\ pc[b] = "abandonado"

\* C19: when a KeyboardInterrupt reaches the main thread while it waits for
\* the readers, the main thread stops waiting: it is never again inside a join
\* of a reader that has not ended, and it goes to its except clause.
C19_DejaDeEsperar ==
    /\ [](interrupcion = "exit" =>
             ~(principal.pc = "desapilar" /\ ~Terminado(principal.idx)))
    /\ [][interrupcion = "" /\ interrupcion' = "exit" => principal'.pc = "except"]_vars

\* C20: a step of one reader, its giving up included, leaves the current
\* library, the round count and the position (ended or not) of every other
\* reader unchanged, and the giving up leaves every book of every library
\* unchanged.
C20_LectoresAislados ==
    [][\A a \in Lectores : PasoDe(a) =>
          /\ \A b \in Lectores \ {a} :
                /\ biblioteca_actual'[b] = biblioteca_actual[b]
                /\ i'[b] = i[b]
                /\ pc'[b] = pc[b]
                /\ Terminado(b)' = Terminado(b)
          /\ SinLibro(a) => bibliotecas' = bibliotecas
          /\ pc[a] = "abandona" =>
                /\ pc'[a] = "abandonado"
                /\ mutex_bibliotecas' = mutex_bibliotecas]_vars

\* C20 witness: a reader gave up at a library where another reader, already
\* in its second round, is reading a book of that same library.
C20_Witness ==
    \E a \in Lectores : \E b \in Lectores \ {a} :
        /\ pc[a] = "abandonado"
        /\ pc[b] = "leer"
        /\ i[b] = 1
        /\ biblioteca_actual[b] = biblioteca_actual[a]

\* Number of positions of the whole vector that hold n.
Ocurrencias(n) == Cardinality({p \in 1 .. Len(vector) : vector[p] = n})
\* Search threads whose addition to contador_global is done.
YaSumaron == {h \in HilosBusqueda : pcBuscar[h] \in {"salir_lock", "terminado"}}
\* Sum of the local counts of the threads 1 .. h that are in H.
RECURSIVE SumaLocales(_, _)
SumaLocales(H, h) ==
    IF h = 0 THEN 0
    ELSE (IF h \in H THEN local_matches[h] ELSE 0) + SumaLocales(H, h - 1)
TodosBuscaron == \A h \in HilosBusqueda : pcBuscar[h] = "terminado"

\* C21: in the search, no addition to contador_global is lost (the counter
\* is always the sum of the local counts already added), so once the four
\* threads have ended the counter, and the total the main thread prints, is
\* the number of positions of the whole vector that hold the number searched,
\* whatever the number and the interleaving.
C21_ContadorExacto ==
    /\ lock = Libre => contador_global = SumaLocales(YaSumaron, Len(segmentos))
    /\ TodosBuscaron => contador_global = Ocurrencias(numero_a_buscar)
    /\ principalBusqueda.pc = "terminado" =>
          /\ TodosBuscaron
          /\ principalBusqueda.total = Ocurrencias(numero_a_buscar)

\* C21 witness: the search of a number found by three different threads has
\* ended and the total printed is 3.
C21_Witness ==
    /\ principalBusqueda.pc = "terminado"
    /\ Cardinality({h \in HilosBusqueda : local_matches[h] >= 1}) = 3
    /\ principalBusqueda.total = 3

\* The sum of matrices A and B.
SumaAB == [f \in Filas |-> [c \in Filas |-> matriz_a[f][c] + matriz_b[f][c]]]
TodasLasFilas == \A f \in Filas : pcFila[f] = "terminado"

\* C22: in the sum of matrices, a step of the thread of row f changes no
\* cell of C outside row f, and after every step, once the N row threads have
\* ended (so once they have been joined) C is A + B cell by cell, and that is
\* what is printed, whatever the interleaving; the threads use no lock.
C22_SumaPorFilas ==
    [][/\ \A f \in Filas : pcFila'[f] # pcFila[f] =>
             \A g \in Filas \ {f} : matriz_c'[g] = matriz_c[g]
       /\ TodasLasFilas' => matriz_c' = SumaAB'
       /\ principalSuma'.pc \in {"imprimir", "terminado"} => TodasLasFilas'
       /\ principalSuma'.pc = "terminado" => principalSuma'.impreso = SumaAB']_vars

\* C22 witness: the sum has been printed and is not symmetric, with a cell
\* that is not zero in A and one that is not zero in B.
C22_Witness ==
    /\ principalSuma.pc = "terminado"
    /\ matriz_a # Ceros
    /\ matriz_b # Ceros
    /\ \E f \in Filas : \E c \in Filas : matriz_c[f][c] # matriz_c[c][f]

\* Books (library, index) reader a holds: taken and not yet given back.
LibrosDe(a) == {ps \in Bibliotecas \X Libros : Tiene(a, ps[1], ps[2])}
\* Number of books marked taken in the libraries 0 .. p - 1.
RECURSIVE OcupadosHasta(_)
OcupadosHasta(p) ==
    IF p = 0 THEN 0 ELSE Cardinality(Ocupados(p - 1)) + OcupadosHasta(p - 1)

\* C23: in every state each reader holds at most one book (it has taken as
\* many books as it has given back, or one more), in every library the number
\* of books marked taken is the number of readers that took a book of it and
\* have not given it back, each taken book having exactly one such reader, and
\* so the number of books taken over all the libraries is at most N.
C23_ConservacionDeLibros ==
    /\ \A a \in Lectores :
          /\ Cardinality(LibrosDe(a)) <= 1
          /\ Len(Tomas(a)) - Len(Devoluciones(a)) = Cardinality(LibrosDe(a))
    /\ \A p \in Bibliotecas :
          /\ Cardinality(Ocupados(p)) = Cardinality(TenedoresEn(p))
          /\ \A s \in Libros :
                Cardinality(Tenedores(p, s)) = (IF s \in Ocupados(p) THEN 1 ELSE 0)
    /\ OcupadosHasta(M) <= N

\* C23 witness: with three readers and two libraries, every reader holds a
\* book, one library has both its books taken and the other has one.
C23_Witness ==
    /\ N = 3
    /\ M = 2
    /\ OcupadosHasta(M) = N
    /\ \A a \in Lectores : Cardinality(LibrosDe(a)) = 1
    /\ \E p \in Bibliotecas : Cardinality(Ocupados(p)) = 2

\* C24: once every one of the N readers is finalizado or abandonado, every
\* book of every library is available again, for every N, M, K and every
\* interleaving; a reader that is abandonado holds no book and no lock.
C24_TodoDevueltoAlFinal ==
    /\ TodosTerminados => TodosDisponibles
    /\ \A a \in Abandonados : LibrosDe(a) = {} /\ LocksDe(a) = {}

\* C24 witness: three readers have ended, one of them abandonado and two
\* finalizado after two rounds, and every book is available.
C24_Witness ==
    /\ N = 3
    /\ K = 2
    /\ TodosTerminados
    /\ Cardinality(Abandonados) = 1
    /\ TodosDisponibles

\* C25: if N is at most K no reader ever gives up: no scan ends without a
\* book, a reader that has ended is finalizado with K rounds done and, under
\* fair scheduling, all the N readers end so.
C25_SinAbandonoSiCaben ==
    /\ [](N <= K => \A a \in Lectores :
             /\ ~SinLibro(a)
             /\ Terminado(a) => pc[a] = "finalizado" /\ i[a] = K /\ Len(Tomas(a)) = K)
    /\ (N <= K => <>[](\A a \in Lectores : pc[a] = "finalizado" /\ i[a] = K))

\* C25 witness: with two readers and two books per library, the two readers
\* are finalizado and one of them once took book 1, book 0 being taken.
C25_Witness ==
    /\ N = 2
    /\ K = 2
    /\ \A a \in Lectores : pc[a] = "finalizado"
    /\ \E a \in Lectores : \E j \in 1 .. Len(historial[a]) : \E p \in Bibliotecas :
          historial[a][j] = <<"toma", p, 1>>

\* The step is the one in which reader a finds no book in its library.
FallaBusqueda(a) == ~SinLibro(a) /\ SinLibro(a)'

EmpiezanEn(p) == {a \in Lectores : BibliotecaInicial(a) = p}

\* C27: with the program's N = 10, M = 3, K = 5 every library starts with
\* more books (5) than readers starting at it (4, 3 and 3), and yet giving up
\* is reachable: in the runs of the schedule of SpecDefecto a reader finds the
\* 5 books of its library taken and ends abandonado.
C27_AbandonoAlcanzable ==
    /\ [](/\ Cardinality(EmpiezanEn(0)) = 4
          /\ Cardinality(EmpiezanEn(1)) = 3
          /\ Cardinality(EmpiezanEn(2)) = 3
          /\ \A p \in Bibliotecas : Cardinality(EmpiezanEn(p)) < K)
    /\ [][\A a \in Lectores : FallaBusqueda(a) =>
            Cardinality(Ocupados(biblioteca_actual[a])) = 5]_vars
    /\ <>(\E a \in Lectores : pc[a] = "abandonado")

\* C27 witness: with N = 10, M = 3, K = 5 a reader is abandonado at a library
\* whose 5 books are held by 5 other readers.
C27_Witness ==
    /\ N = 10 /\ M = 3 /\ K = 5
    /\ \E a \in Lectores :
          /\ pc[a] = "abandonado"
          /\ Cardinality(TenedoresEn(biblioteca_actual[a])) = 5

\* Number of lines `linea` in the trace of reader a.
Cuenta(a, linea) ==
    LET Es(l) == l = linea IN Len(SelectSeq(traza[a], Es))
\* Takings of book s of library p that reader a has logged and whose giving
\* back it has not logged.
PendienteDe(a, p, s) ==
    Cuenta(a, <<"obtiene_libro", p, s>>) - Cuenta(a, <<"devuelve_libro", p, s>>)
\* The same, added over the readers 0 .. n - 1.
RECURSIVE PendientesHasta(_, _, _)
PendientesHasta(n, p, s) ==
    IF n = 0 THEN 0 ELSE PendienteDe(n - 1, p, s) + PendientesHasta(n - 1, p, s)
\* A reader has changed book s of library p and not yet logged it.
PorRegistrar(p, s) ==
    \E a \in Lectores :
        /\ mutex_bibliotecas[p] = a
        /\ pc[a] \in {"log_obtiene", "log_devuelve"}
        /\ libro_tomado[a] = s

\* C28: in the trace, for every book (library p, index s) the obtiene_libro
\* and devuelve_libro lines alternate, the first being an obtiene_libro (at
\* any moment the takings logged are the givings back logged, or one more),
\* each devuelve_libro is written by the reader that wrote the obtiene_libro
\* before it, and the lines come in the order of the changes of the book: the
\* book is marked taken exactly when a taking is logged and not yet its
\* giving back, but for the change a reader is about to log inside the lock.
C28_TrazaAlterna ==
    /\ [](\A p \in Bibliotecas : \A s \in Libros :
            /\ \A a \in Lectores : PendienteDe(a, p, s) \in {0, 1}
            /\ PendientesHasta(N, p, s) \in {0, 1}
            /\ (bibliotecas[p][s] = 0) <=>
                  ((PendientesHasta(N, p, s) = 1) # PorRegistrar(p, s)))
    /\ [][\A a \in Lectores : Emite(a) =>
            LET linea == UltimaLinea(a)'
            IN  /\ linea[1] = "devuelve_libro" =>
                      /\ PendienteDe(a, linea[2], linea[3]) = 1
                      /\ bibliotecas[linea[2]][linea[3]] = 1
                /\ linea[1] = "obtiene_libro" =>
                      /\ PendientesHasta(N, linea[2], linea[3]) = 0
                      /\ bibliotecas[linea[2]][linea[3]] = 0]_vars

\* C28 witness: a book has been taken and given back by one reader, both
\* logged, and is now taken by another reader that has logged it.
C28_Witness ==
    \E p \in Bibliotecas : \E s \in Libros : \E a \in Lectores :
        \E b \in Lectores \ {a} :
            /\ Cuenta(a, <<"obtiene_libro", p, s>>) >= 1
            /\ PendienteDe(a, p, s) = 0
            /\ PendienteDe(b, p, s) = 1

\* The class of the j-th line (j >= 2) of a trace before its last line.
ClaseDeCiclo(j) ==
    CASE (j - 2) % 3 = 0 -> "obtiene_libro"
      [] (j - 2) % 3 = 1 -> "devuelve_libro"
      [] (j - 2) % 3 = 2 -> "cambia_biblioteca"

\* The trace of reader a is: inicio, then rounds of obtiene_libro,
\* devuelve_libro of the same book, cambia_biblioteca to the next library,
\* then, once the reader has ended, one last line abandona or finaliza.
SecuenciaDeLector(a) ==
    LET t == traza[a]
        n == Len(t)
        cuerpo == IF Terminado(a) THEN n - 1 ELSE n
        ciclos == (cuerpo - 1) \div 3
    IN  /\ (pc[a] \in {"no_iniciado", "inicio"}) <=> (n = 0)
        /\ n >= 1 => t[1] = <<"inicio", BibliotecaInicial(a)>>
        /\ \A j \in 2 .. cuerpo :
              /\ t[j][1] = ClaseDeCiclo(j)
              /\ t[j][1] = "obtiene_libro" => t[j][2] = (a + (j - 2) \div 3) % M
              /\ t[j][1] = "devuelve_libro" => t[j][2] = t[j - 1][2] /\ t[j][3] = t[j - 1][3]
              /\ t[j][1] = "cambia_biblioteca" => t[j][2] = Siguiente(t[j - 1][2])
        /\ Terminado(a) =>
              /\ n >= 2
              /\ (cuerpo - 1) % 3 = 0
              /\ t[n][1] \in {"abandona", "finaliza"}
              /\ (t[n][1] = "finaliza") <=> (ciclos = K)
              /\ (t[n][1] = "abandona") <=> (Len(Intentos(a)) = Len(Tomas(a)) + 1)
              /\ (t[n][1] = "abandona") <=> (pc[a] = "abandonado")

\* C29: the lines of each reader are one inicio, then zero or more times
\* (obtiene_libro, devuelve_libro, cambia_biblioteca), then exactly one last
\* line, written when the reader ends: abandona if a try found no book,
\* finaliza if and only if K rounds were done.
C29_SecuenciaDeEventos ==
    \A a \in Lectores : SecuenciaDeLector(a)

\* C29 witness: a reader has ended abandonado after one whole round (five
\* lines) and another finalizado after two rounds (eight lines).
C29_Witness ==
    \E a \in Lectores : \E b \in Lectores \ {a} :
        /\ pc[a] = "abandonado"
        /\ Len(traza[a]) = 5
        /\ pc[b] = "finalizado"
        /\ Len(traza[b]) = 8

====
